---------------------------- MODULE Spec2Model ----------------------------
(***************************************************************************)
(* Multi-level referral system: the record store (StorageManager), the     *)
(* referral engine (ReferralSystem), registration and the session          *)
(* (AuthManager).                                                          *)
(*                                                                         *)
(* Every handler is an async function whose awaited store requests are its *)
(* atomic steps.  A handler is modelled as a frame (its locals and the     *)
(* position of its next store request) and a step function over the store. *)
(* Under Spec the calls run one at a time: an action runs a handler's      *)
(* steps to its return.  Under SpecConc the calls overlap: an action runs   *)
(* one awaited store request of one of the calls in flight.                *)
(*                                                                         *)
(* Encodings.  User ids are 1, 2, ... in creation order (generateId is     *)
(* 'user_' + Date.now() + random: never reused).  A username, an email or  *)
(* a referral code is a token t > 0 in its canonical spelling (lower case  *)
(* for usernames and emails, upper case for codes), -t is the same token   *)
(* in another letter case, and 0 is the empty/absent/invalid value.  A     *)
(* password is TRUE (one of six characters or more) or FALSE (another,     *)
(* shorter one).  Time is Date.now() in milliseconds.                      *)
(***************************************************************************)
EXTENDS Integers, Sequences, FiniteSets, TLC

VARIABLES users, referrals, nextId, directCalls, last, inflight, session, now

vars == <<users, referrals, nextId, directCalls, last, inflight, session, now>>

\* ------------------------------------------------------------------ bounds
\* Spec: users ever created, deleteUser calls, admins stored
MaxUsers == 4
MaxDeletes == 1
MaxAdmins == 1
\* SpecChain: users ever created, direct processNewReferral calls that award
MaxChain == 6
MaxDirectCalls == 1
\* SpecFault: users ever created
FaultChain == 4
\* SpecConc: users ever created, direct processNewReferral, awardEarnings and
\* deleteUser calls, the level a walk is followed to
ConcUsers == 3
ConcDirect == 1
ConcLevels == 4
\* SpecSession: users ever created, half days the clock runs
SessionUsers == 2
MaxHalfDays == 4

MaxIds == IF MaxChain > MaxUsers THEN MaxChain ELSE MaxUsers
\* an acyclic referrer graph is less deep than this
MaxDepth == MaxIds + 1
\* every walk over an acyclic chain returns within this many steps
MaxSteps == 4 * (MaxIds + 2)

\* --------------------------------------------------------------- encodings
\* what an IndexedDB get resolves to when the key is not found
Undefined == [id |-> 0]
Null == 0
toUpperCase(code) == IF code < 0 THEN -code ELSE code
toLowerCase(name) == IF name < 0 THEN -name ELSE name

rewardStructure == [level1 |-> 100, level2 |-> 60, level3 |-> 40, level4Plus |-> 20]

\* ------------------------------------------------------------ record store
\* the store, and the number of the next id generateId makes
DB == [users |-> users, referrals |-> referrals, nextId |-> nextId]

getUserById(db, id) ==
    IF id \in DOMAIN db.users THEN db.users[id] ELSE Undefined

getUserByUsername(db, username) ==
    IF \E i \in DOMAIN db.users : db.users[i].username = username
    THEN db.users[CHOOSE i \in DOMAIN db.users : db.users[i].username = username]
    ELSE Undefined

getUserByEmail(db, email) ==
    IF \E i \in DOMAIN db.users : db.users[i].email = email
    THEN db.users[CHOOSE i \in DOMAIN db.users : db.users[i].email = email]
    ELSE Undefined

getUserByReferralCode(db, code) ==
    IF \E i \in DOMAIN db.users : db.users[i].referralCode = code
    THEN db.users[CHOOSE i \in DOMAIN db.users : db.users[i].referralCode = code]
    ELSE Undefined

\* (mutant) the users store has no unique index
UniqueIndexesAllow_NoIndex(db, user) == TRUE

\* the unique indexes of the users store (username, email, referralCode)
UniqueIndexesAllow(db, user) ==
    \A i \in DOMAIN db.users \ {user.id} :
        /\ db.users[i].username # user.username
        /\ db.users[i].email # user.email
        /\ db.users[i].referralCode # user.referralCode

\* store.add: rejected when the key exists or a unique index is violated
addUser(db, user) ==
    IF user.id \notin DOMAIN db.users /\ UniqueIndexesAllow(db, user)
    THEN [ok |-> TRUE,
          db |-> [db EXCEPT !.users =
                     [i \in DOMAIN db.users \cup {user.id} |->
                         IF i = user.id THEN user ELSE db.users[i]]]]
    ELSE [ok |-> FALSE, db |-> db]

\* (mutant) the write is store.add: it does not replace a stored record
updateUser_Add(db, user) == addUser(db, user)

\* store.put: inserts or replaces; rejected when a unique index is violated
updateUser(db, user) ==
    IF UniqueIndexesAllow(db, user)
    THEN [ok |-> TRUE,
          db |-> [db EXCEPT !.users =
                     [i \in DOMAIN db.users \cup {user.id} |->
                         IF i = user.id THEN user ELSE db.users[i]]]]
    ELSE [ok |-> FALSE, db |-> db]

\* getAll resolves in key order
RECURSIVE SeqOfSet(_)
SeqOfSet(S) ==
    IF S = {} THEN <<>>
    ELSE LET m == CHOOSE x \in S : \A y \in S : x <= y
         IN  <<m>> \o SeqOfSet(S \ {m})

getAllUsers(db) ==
    LET ids == SeqOfSet(DOMAIN db.users)
    IN  [k \in 1..Len(ids) |-> db.users[ids[k]]]

addReferral(db, referral) ==
    [db EXCEPT !.referrals = Append(@, referral)]

getReferralsByReferrer(db, userId) ==
    SelectSeq(db.referrals, LAMBDA r : r.referrerId = userId)

getAllReferrals(db) == db.referrals

deleteUser(db, id) ==
    [db EXCEPT !.users = [i \in DOMAIN db.users \ {id} |-> db.users[i]]]


\* --------------------------------------------------------- referral engine
\* generateReferralId: 'ref_' + Date.now() + random, fresh for every record;
\* createdAt: Date.now(), here the logical time of the append
generateReferralId(db) == Len(db.referrals) + 1
DateNow(db) == Len(db.referrals) + 1

Success == [success |-> TRUE, error |-> ""]
Failure(msg) == [success |-> FALSE, error |-> msg]

\* (mutant) the flat tier begins one level late
AwardAmount_FlatFromFive(level) ==
    IF level = 1 THEN rewardStructure.level1
    ELSE IF level = 2 THEN rewardStructure.level2
    ELSE IF level <= 4 THEN rewardStructure.level3
    ELSE rewardStructure.level4Plus

\* the amount passed to awardEarnings at the call site of each level
AwardAmount(level) ==
    IF level = 1 THEN rewardStructure.level1
    ELSE IF level = 2 THEN rewardStructure.level2
    ELSE IF level = 3 THEN rewardStructure.level3
    ELSE rewardStructure.level4Plus

\* (mutant) level 2 is credited to the level1 bucket
AddEarnings_WrongBucket(referrer, level, amount) ==
    LET r == [referrer EXCEPT !.totalEarnings = @ + amount]
    IN  IF level <= 2 THEN [r EXCEPT !.earningsByLevel.level1 = @ + amount]
        ELSE IF level = 3 THEN [r EXCEPT !.earningsByLevel.level3 = @ + amount]
        ELSE [r EXCEPT !.earningsByLevel.level4Plus = @ + amount]

\* (mutant) the level-2 bucket is raised by the level-1 amount
AddEarnings_WrongAmount(referrer, level, amount) ==
    LET r == [referrer EXCEPT !.totalEarnings = @ + amount]
    IN  IF level = 1 THEN [r EXCEPT !.earningsByLevel.level1 = @ + amount]
        ELSE IF level = 2
        THEN [r EXCEPT !.earningsByLevel.level2 = @ + rewardStructure.level1]
        ELSE IF level = 3 THEN [r EXCEPT !.earningsByLevel.level3 = @ + amount]
        ELSE [r EXCEPT !.earningsByLevel.level4Plus = @ + amount]

\* awardEarnings, the update of the fetched referrer object (before the put)
AddEarnings(referrer, level, amount) ==
    LET r == [referrer EXCEPT !.totalEarnings = @ + amount]
    IN  IF level = 1 THEN [r EXCEPT !.earningsByLevel.level1 = @ + amount]
        ELSE IF level = 2 THEN [r EXCEPT !.earningsByLevel.level2 = @ + amount]
        ELSE IF level = 3 THEN [r EXCEPT !.earningsByLevel.level3 = @ + amount]
        ELSE [r EXCEPT !.earningsByLevel.level4Plus = @ + amount]

\* (mutant) the record carries the level-1 amount whatever was awarded
ReferralRecord_Level1Amount(db, referrerId, referredUserId, level, amount) ==
    [id |-> generateReferralId(db),
     referrerId |-> referrerId,
     referredId |-> referredUserId,
     level |-> level,
     earnings |-> rewardStructure.level1,
     createdAt |-> DateNow(db)]

\* awardEarnings, the referral record it appends
ReferralRecord(db, referrerId, referredUserId, level, amount) ==
    [id |-> generateReferralId(db),
     referrerId |-> referrerId,
     referredId |-> referredUserId,
     level |-> level,
     earnings |-> amount,
     createdAt |-> DateNow(db)]

\* The frame of one awardEarnings call: its arguments, the referrer object it
\* fetched and updated, and where the call stands.
AwardFrame(referrerId, referredUserId, level, amount) ==
    [pc |-> "get", referrerId |-> referrerId, referredUserId |-> referredUserId,
     level |-> level, amount |-> amount, referrer |-> Undefined, result |-> Success]

\* One awaited store request of awardEarnings called on its own; it has no
\* try/catch: a rejected put throws.
awardEarningsStep(db, f) ==
    CASE f.pc = "get" ->
            LET referrer == getUserById(db, f.referrerId)
            IN  IF referrer = Undefined
                THEN [db |-> db, f |-> [f EXCEPT !.pc = "done"]]
                ELSE [db |-> db,
                      f |-> [f EXCEPT !.pc = "put",
                                !.referrer = AddEarnings(referrer, f.level, f.amount)]]
      [] f.pc = "put" ->
            LET put == updateUser(db, f.referrer)
            IN  IF put.ok
                THEN [db |-> put.db, f |-> [f EXCEPT !.pc = "add"]]
                ELSE [db |-> db,
                      f |-> [f EXCEPT !.pc = "done", !.result = Failure("ConstraintError")]]
      [] f.pc = "add" ->
            [db |-> addReferral(db, ReferralRecord(db, f.referrerId, f.referredUserId,
                                                   f.level, f.amount)),
             f |-> [f EXCEPT !.pc = "done"]]
      [] OTHER -> [db |-> db, f |-> f]

\* The frame of one processNewReferral call: its arguments, the referrer the
\* walk stands at (cur: level1Referrer, level2Referrer, level3Referrer, then
\* currentReferrer/nextReferrer), the level of that referrer, the object
\* awardEarnings fetched and updated (referrer), and where the call stands.
\* (mutant) the call does not look the new user up
PnrFrame_NoUserCheck(newUserId, referralCode) ==
    [pc |-> "lookup", newUserId |-> newUserId, referralCode |-> referralCode,
     level |-> 1, cur |-> Undefined, referrer |-> Undefined, result |-> Success]

PnrFrame(newUserId, referralCode) ==
    [pc |-> "getNewUser", newUserId |-> newUserId, referralCode |-> referralCode,
     level |-> 1, cur |-> Undefined, referrer |-> Undefined, result |-> Success]

PnrReturn(f, result) == [f EXCEPT !.pc = "done", !.result = result]

\* (mutant) a code that does not resolve is an error at every level
PnrLookupFailed_Throws(f) == PnrReturn(f, Failure("Referrer not found"))

\* a referral code resolved to nobody: thrown at level 1, the end of the walk
\* above it
PnrLookupFailed(f) ==
    IF f.level = 1
    THEN PnrReturn(f, Failure("Referrer not found"))
    ELSE PnrReturn(f, Success)

\* (mutant) the loop does not move to the referrer it looked up
PnrAfterAward_NoAdvance(f) ==
    IF f.cur.referredBy = Null
    THEN PnrReturn(f, Success)
    ELSE [f EXCEPT !.pc = "awardGet", !.level = @ + 1]

\* after an award: "if (referrer.referredBy)" / "while (currentReferrer.referredBy)"
PnrAfterAward(f) ==
    IF f.cur.referredBy = Null
    THEN PnrReturn(f, Success)
    ELSE [f EXCEPT !.pc = "lookup", !.level = @ + 1]

\* (mutant) a referrer that is gone is an error
AwardSkipped_Throws(f) == PnrReturn(f, Failure("Referrer not found"))

\* awardEarnings found no referrer under the id ("if (!referrer) return"):
\* processNewReferral goes on as after an award
AwardSkipped(f) == PnrAfterAward(f)

\* One awaited store request of processNewReferral (awardEarnings inlined).
processNewReferralStep(db, f) ==
    CASE f.pc = "getNewUser" ->
            IF getUserById(db, f.newUserId) = Undefined
            THEN [db |-> db, f |-> PnrReturn(f, Failure("User not found"))]
            ELSE [db |-> db, f |-> [f EXCEPT !.pc = "lookup"]]
      [] f.pc = "lookup" ->
            LET code == IF f.level = 1 THEN f.referralCode ELSE f.cur.referredBy
                found == getUserByReferralCode(db, code)
            IN  IF found = Undefined
                THEN [db |-> db, f |-> PnrLookupFailed(f)]
                ELSE [db |-> db, f |-> [f EXCEPT !.pc = "awardGet", !.cur = found]]
      [] f.pc = "awardGet" ->
            LET referrer == getUserById(db, f.cur.id)
            IN  IF referrer = Undefined
                THEN [db |-> db, f |-> AwardSkipped(f)]
                ELSE [db |-> db,
                      f |-> [f EXCEPT !.pc = "awardPut",
                                !.referrer = AddEarnings(referrer, f.level,
                                                         AwardAmount(f.level))]]
      [] f.pc = "awardPut" ->
            LET put == updateUser(db, f.referrer)
            IN  IF put.ok
                THEN [db |-> put.db, f |-> [f EXCEPT !.pc = "awardAdd"]]
                ELSE [db |-> db, f |-> PnrReturn(f, Failure("ConstraintError"))]
      [] f.pc = "awardAdd" ->
            [db |-> addReferral(db, ReferralRecord(db, f.cur.id, f.newUserId, f.level,
                                                   AwardAmount(f.level))),
             f |-> PnrAfterAward(f)]
      [] OTHER -> [db |-> db, f |-> f]

\* processNewReferral run without another call in between: its steps in order,
\* to its return, or MaxSteps steps of a walk that does not end.
RECURSIVE processNewReferralRun(_, _, _)
processNewReferralRun(db, f, fuel) ==
    IF f.pc = "done" \/ fuel = 0 THEN [db |-> db, f |-> f]
    ELSE LET s == processNewReferralStep(db, f)
         IN  processNewReferralRun(s.db, s.f, fuel - 1)

processNewReferral(db, newUserId, referralCode) ==
    processNewReferralRun(db, PnrFrame(newUserId, referralCode), MaxSteps)

\* (mutant) the catch block restores the store the call started from
processNewReferralFailing_RollsBack(db, newUserId, referralCode, n) ==
    LET s == processNewReferralRun(db, PnrFrame(newUserId, referralCode), n - 1)
    IN  IF s.f.pc = "done" THEN [db |-> s.db, f |-> s.f, failed |-> FALSE]
        ELSE [db |-> db, f |-> PnrReturn(s.f, Failure("request.error")), failed |-> TRUE]

\* processNewReferral when its n-th awaited store request is rejected
\* (request.onerror: the await throws into the catch block); the requests
\* before it took effect, the rejected one wrote nothing
processNewReferralFailing(db, newUserId, referralCode, n) ==
    LET s == processNewReferralRun(db, PnrFrame(newUserId, referralCode), n - 1)
    IN  IF s.f.pc = "done" THEN [db |-> s.db, f |-> s.f, failed |-> FALSE]
        ELSE [db |-> s.db, f |-> PnrReturn(s.f, Failure("request.error")), failed |-> TRUE]


\* ------------------------------------------------------------ registration
\* generateId: a fresh id, and the ids later calls will get
generateId(db) == db.nextId

\* hashPassword: the SHA-256 digest, one per password
hashPassword(password) == IF password THEN "sha256:long" ELSE "sha256:short"

\* register's new user object (createdAt is not modelled)
NewUser(id, username, email, password, referralCode, referredBy, isAdmin) ==
    [id |-> id,
     username |-> toLowerCase(username),
     email |-> toLowerCase(email),
     passwordHash |-> hashPassword(password),
     referralCode |-> referralCode,
     referredBy |-> referredBy,
     isAdmin |-> isAdmin,
     totalEarnings |-> 0,
     earningsByLevel |-> [level1 |-> 0, level2 |-> 0, level3 |-> 0, level4Plus |-> 0]]

\* The frame of one register call: its arguments, referredBy, the id and the
\* user object once made, the frame of its processNewReferral call.
RegFrame(username, email, password, referralCode) ==
    [pc |-> "checkUsername", username |-> username, email |-> email,
     password |-> password, referralCode |-> referralCode, referredBy |-> Null,
     id |-> 0, user |-> Undefined, pnr |-> PnrFrame(0, Null), result |-> Success]

\* (mutant) register reports failure whatever it had done
RegReturn_Fails(f, result) ==
    [f EXCEPT !.pc = "done", !.result = Failure("Registration failed")]

RegReturn(f, result) == [f EXCEPT !.pc = "done", !.result = result]

\* (mutant) the referral code is not validated
ReferrerResolves_Unchecked(db, referralCode) == TRUE

\* register's validation of the referral code
ReferrerResolves(db, referralCode) ==
    getUserByReferralCode(db, toUpperCase(referralCode)) # Undefined

\* One awaited request of register; code is the code generateReferralCode's
\* next random draw makes.
registerStep(db, f, code) ==
    CASE f.pc = "checkUsername" ->
            IF f.username = 0
            THEN [db |-> db, f |-> RegReturn(f, Failure("Username must be at least 3 characters"))]
            ELSE IF f.email = 0
            THEN [db |-> db, f |-> RegReturn(f, Failure("Invalid email address"))]
            ELSE IF ~f.password
            THEN [db |-> db, f |-> RegReturn(f, Failure("Password must be at least 6 characters"))]
            ELSE IF getUserByUsername(db, f.username) # Undefined
            THEN [db |-> db, f |-> RegReturn(f, Failure("Username already exists"))]
            ELSE [db |-> db, f |-> [f EXCEPT !.pc = "checkEmail"]]
      [] f.pc = "checkEmail" ->
            IF getUserByEmail(db, f.email) # Undefined
            THEN [db |-> db, f |-> RegReturn(f, Failure("Email already exists"))]
            ELSE IF f.referralCode # Null
            THEN [db |-> db, f |-> [f EXCEPT !.pc = "checkCode"]]
            ELSE [db |-> [db EXCEPT !.nextId = @ + 1],
                  f |-> [f EXCEPT !.pc = "generateReferralCode", !.id = generateId(db)]]
      [] f.pc = "checkCode" ->
            IF ~ReferrerResolves(db, f.referralCode)
            THEN [db |-> db, f |-> RegReturn(f, Failure("Invalid referral code"))]
            ELSE [db |-> [db EXCEPT !.nextId = @ + 1],
                  f |-> [f EXCEPT !.pc = "generateReferralCode", !.id = generateId(db),
                                  !.referredBy = toUpperCase(f.referralCode)]]
      [] f.pc = "generateReferralCode" ->
            IF getUserByReferralCode(db, code) # Undefined
            THEN [db |-> db, f |-> f]
            ELSE [db |-> db,
                  f |-> [f EXCEPT !.pc = "addUser",
                                  !.user = NewUser(f.id, f.username, f.email, f.password, code,
                                                   f.referredBy, FALSE)]]
      [] f.pc = "addUser" ->
            LET add == addUser(db, f.user)
            IN  IF ~add.ok
                THEN [db |-> db, f |-> RegReturn(f, Failure("ConstraintError"))]
                ELSE IF f.referredBy # Null
                THEN [db |-> add.db,
                      f |-> [f EXCEPT !.pc = "processNewReferral",
                                      !.pnr = PnrFrame(f.user.id, f.referredBy)]]
                ELSE [db |-> add.db, f |-> RegReturn(f, Success)]
      [] f.pc = "processNewReferral" ->
            LET s == processNewReferralStep(db, f.pnr)
            IN  IF s.f.pc = "done"
                THEN [db |-> s.db, f |-> RegReturn([f EXCEPT !.pnr = s.f], Success)]
                ELSE [db |-> s.db, f |-> [f EXCEPT !.pnr = s.f]]
      [] OTHER -> [db |-> db, f |-> f]

RECURSIVE registerRun(_, _, _, _)
registerRun(db, f, code, fuel) ==
    IF f.pc = "done" \/ fuel = 0 THEN [db |-> db, f |-> f]
    ELSE LET s == registerStep(db, f, code)
         IN  registerRun(s.db, s.f, code, fuel - 1)

register(db, username, email, password, referralCode, code) ==
    registerRun(db, RegFrame(username, email, password, referralCode), code, MaxSteps + 5)

\* createAdminUser: no validation and no try/catch; a rejected add throws
\* (the admin's password is the one of six characters or more)
createAdminUser(db, username, email, code) ==
    LET user == NewUser(generateId(db), username, email, TRUE, code, Null, TRUE)
        add == addUser([db EXCEPT !.nextId = @ + 1], user)
    IN  IF add.ok THEN [db |-> add.db, result |-> Success, user |-> user]
        ELSE [db |-> [db EXCEPT !.nextId = @ + 1], result |-> Failure("ConstraintError"),
              user |-> Undefined]

\* The frame of one createAdminUser call, and one awaited request of it
AdminFrame(username, email) ==
    [pc |-> "generateReferralCode", username |-> username, email |-> email,
     id |-> 0, user |-> Undefined, result |-> Success]

createAdminUserStep(db, f, code) ==
    CASE f.pc = "generateReferralCode" ->
            IF getUserByReferralCode(db, code) # Undefined
            THEN [db |-> db, f |-> f]
            ELSE [db |-> [db EXCEPT !.nextId = @ + 1],
                  f |-> [f EXCEPT !.pc = "addUser", !.id = generateId(db),
                                  !.user = NewUser(generateId(db), f.username, f.email,
                                                   TRUE, code, Null, TRUE)]]
      [] f.pc = "addUser" ->
            LET add == addUser(db, f.user)
            IN  IF add.ok
                THEN [db |-> add.db, f |-> [f EXCEPT !.pc = "done"]]
                ELSE [db |-> db,
                      f |-> [f EXCEPT !.pc = "done", !.result = Failure("ConstraintError")]]
      [] OTHER -> [db |-> db, f |-> f]


\* ------------------------------------------------------------------ queries
\* what a query returns for null, and the mark of a query that never returns
JsNull == [isNull |-> TRUE]
Diverges == [diverges |-> TRUE]

getDirectReferrals(db, userId) ==
    LET user == getUserById(db, userId)
    IN  IF user = Undefined THEN <<>>
        ELSE SelectSeq(getAllUsers(db), LAMBDA u : u.referredBy = user.referralCode)

\* buildReferralTree to at most depth nested calls (the recursion has no guard
\* of its own: it never returns on a cycle)
RECURSIVE buildReferralTreeTo(_, _, _)
buildReferralTreeTo(db, userId, depth) ==
    IF depth = 0 THEN Diverges
    ELSE LET user == getUserById(db, userId)
         IN  IF user = Undefined THEN JsNull
             ELSE LET directReferrals == getDirectReferrals(db, userId)
                      childTrees == [k \in 1..Len(directReferrals) |->
                          buildReferralTreeTo(db, directReferrals[k].id, depth - 1)]
                  IN  IF \E k \in 1..Len(childTrees) : childTrees[k] = Diverges
                      THEN Diverges
                      ELSE [user |-> user,
                            children |-> SelectSeq(childTrees, LAMBDA t : t # JsNull)]

\* (mutant) a missing user gives an empty node, not null
buildReferralTree_EmptyNode(db, userId) ==
    LET tree == buildReferralTreeTo(db, userId, MaxDepth)
    IN  IF tree = JsNull THEN [user |-> Undefined, children |-> <<>>] ELSE tree

buildReferralTree(db, userId) == buildReferralTreeTo(db, userId, MaxDepth)

\* stats.levels[level] = (stats.levels[level] || 0) + 1
IncLevel(levels, level) ==
    [d \in DOMAIN levels \cup {level} |->
        IF d \in DOMAIN levels
        THEN (IF d = level THEN levels[d] + 1 ELSE levels[d])
        ELSE 1]

\* getReferralStats' countReferrals(node, level), on the stats so far
RECURSIVE countReferrals(_, _, _), countReferralsOfChildren(_, _, _, _)
\* (mutant) the test is level >= 0: the root is counted as a referral
countReferrals_CountsRoot(stats, node, level) ==
    LET s1 == IF level = 1 THEN [stats EXCEPT !.directReferrals = @ + 1] ELSE stats
        s2 == [s1 EXCEPT !.totalReferrals = @ + 1, !.levels = IncLevel(@, level)]
    IN  countReferralsOfChildren(s2, node.children, 1, level + 1)

countReferrals(stats, node, level) ==
    LET s1 == IF level = 1 THEN [stats EXCEPT !.directReferrals = @ + 1] ELSE stats
        s2 == IF level > 0
              THEN [s1 EXCEPT !.totalReferrals = @ + 1, !.levels = IncLevel(@, level)]
              ELSE s1
    IN  countReferralsOfChildren(s2, node.children, 1, level + 1)
countReferralsOfChildren(stats, children, k, level) ==
    IF k > Len(children) THEN stats
    ELSE countReferralsOfChildren(countReferrals(stats, children[k], level),
                                  children, k + 1, level)

getReferralStats(db, userId) ==
    LET tree == buildReferralTree(db, userId)
    IN  IF tree = Diverges THEN Diverges
        ELSE IF tree = JsNull THEN JsNull
        ELSE countReferrals([directReferrals |-> 0, totalReferrals |-> 0, levels |-> <<>>],
                            tree, 0)

\* getUpline's loop, to at most steps iterations
RECURSIVE getUplineLoop(_, _, _, _)
\* (mutant) the loop stops at a referrer it has already collected
getUplineLoop_CycleGuard(db, upline, currentReferrer, steps) ==
    IF currentReferrer = Undefined THEN upline
    ELSE IF \E k \in 1..Len(upline) : upline[k].id = currentReferrer.id THEN upline
    ELSE IF steps = 0 THEN <<Diverges>>
    ELSE IF currentReferrer.referredBy = Null THEN Append(upline, currentReferrer)
    ELSE getUplineLoop(db, Append(upline, currentReferrer),
                       getUserByReferralCode(db, currentReferrer.referredBy), steps - 1)

\* (mutant) the loop tests referredBy before it pushes: the root is left out
getUplineLoop_DropsRoot(db, upline, currentReferrer, steps) ==
    IF currentReferrer = Undefined THEN upline
    ELSE IF steps = 0 THEN <<Diverges>>
    ELSE IF currentReferrer.referredBy = Null THEN upline
    ELSE getUplineLoop(db, Append(upline, currentReferrer),
                       getUserByReferralCode(db, currentReferrer.referredBy), steps - 1)

getUplineLoop(db, upline, currentReferrer, steps) ==
    IF currentReferrer = Undefined THEN upline
    ELSE IF steps = 0 THEN <<Diverges>>
    ELSE IF currentReferrer.referredBy = Null THEN Append(upline, currentReferrer)
    ELSE getUplineLoop(db, Append(upline, currentReferrer),
                       getUserByReferralCode(db, currentReferrer.referredBy), steps - 1)

getUpline(db, userId) ==
    LET user == getUserById(db, userId)
    IN  IF user = Undefined THEN <<>>
        ELSE IF user.referredBy = Null THEN <<>>
        ELSE getUplineLoop(db, <<>>, getUserByReferralCode(db, user.referredBy), MaxDepth)

\* Array.prototype.sort((a, b) => b.date - a.date): stable, newest first
RECURSIVE SortByDateDesc(_)
SortByDateDesc(seq) ==
    IF Len(seq) <= 1 THEN seq
    ELSE LET rest == SortByDateDesc(Tail(seq))
             x == Head(seq)
             before == SelectSeq(rest, LAMBDA y : y.date > x.date)
             after == SelectSeq(rest, LAMBDA y : y.date <= x.date)
         IN  before \o <<x>> \o after

getEarningsBreakdown(db, userId) ==
    LET refs == getReferralsByReferrer(db, userId)
    IN  SortByDateDesc([k \in 1..Len(refs) |->
            [referredUser |-> getUserById(db, refs[k].referredId),
             level |-> refs[k].level,
             earnings |-> refs[k].earnings,
             date |-> refs[k].createdAt]])

\* getNetworkSize's countNodes(node)
RECURSIVE countNodes(_), countNodesOfChildren(_, _, _)
\* (mutant) the count starts at 0: a node's own children are not counted
countNodes_FromZero(node) ==
    countNodesOfChildren(0, node.children, 1)

countNodes(node) ==
    countNodesOfChildren(Len(node.children), node.children, 1)
countNodesOfChildren(count, children, k) ==
    IF k > Len(children) THEN count
    ELSE countNodesOfChildren(count + countNodes(children[k]), children, k + 1)

getNetworkSize(db, userId) ==
    LET tree == buildReferralTree(db, userId)
    IN  IF tree = Diverges THEN Diverges
        ELSE IF tree = JsNull THEN 0
        ELSE countNodes(tree)


\* ----------------------------------------------------------------- session
\* session is the localStorage item under sessionKey (JsNull: no item; the
\* JSON text of a session object is read back as that object), now the clock
\* Date.now() reads.
expiryTime == 24 * 60 * 60 * 1000

setSession(user, time) ==
    [userId |-> user.id, username |-> user.username, isAdmin |-> user.isAdmin,
     timestamp |-> time]

\* logout: removes the item (the redirect is not modelled)
logout(item) == JsNull

\* (mutant) a session never expires
getSession_NoExpiry(item, time) == [result |-> item, item |-> item]

\* getSession: what it returns and the item it leaves
getSession(item, time) ==
    IF item = JsNull THEN [result |-> JsNull, item |-> item]
    ELSE IF time - item.timestamp > expiryTime
    THEN [result |-> JsNull, item |-> logout(item)]
    ELSE [result |-> item, item |-> item]

isLoggedIn(item, time) ==
    LET s == getSession(item, time)
    IN  [result |-> s.result # JsNull, item |-> s.item]

sanitizeUser(user) == [k \in DOMAIN user \ {"passwordHash"} |-> user[k]]

\* login: what it returns and the item it leaves
login(db, item, time, username, password) ==
    LET user == getUserByUsername(db, toLowerCase(username))
    IN  IF user = Undefined
        THEN [result |-> Failure("Invalid username or password"), item |-> item]
        ELSE IF hashPassword(password) # user.passwordHash
        THEN [result |-> Failure("Invalid username or password"), item |-> item]
        ELSE [result |-> [success |-> TRUE, user |-> sanitizeUser(user)],
              item |-> setSession(user, time)]


\* ------------------------------------------------------------------ inputs
OwnedCodes(db) == {db.users[i].referralCode : i \in DOMAIN db.users}
\* codes some stored user was referred by that no stored user owns
DanglingCodes(db) ==
    {db.users[i].referredBy : i \in DOMAIN db.users} \ (OwnedCodes(db) \cup {Null})
\* a code no user ever had
UnknownCode == MaxIds + 1
\* the codes a caller may pass: none, a stored user's code in either letter
\* case, a code that resolves to nobody
CodeInputs(db) ==
    {Null, UnknownCode} \cup OwnedCodes(db) \cup {-c : c \in OwnedCodes(db)}
        \cup DanglingCodes(db)
\* the codes generateReferralCode may return: any code no stored user owns; all
\* of them behave alike but those that stored users still refer to
GeneratedCodes(db) == {db.nextId} \cup DanglingCodes(db)

Usernames(db) == {db.users[i].username : i \in DOMAIN db.users}
Emails(db) == {db.users[i].email : i \in DOMAIN db.users}
\* a name nobody stored has (names are compared for equality only)
FreshName(taken) == CHOOSE t \in 1..(Cardinality(taken) + 1) : t \notin taken

\* register's arguments: a new identity with any referral code, or one invalid
\* or taken field with no code or a stored user's
RegisterInputs(db) ==
    LET u == FreshName(Usernames(db))
        e == FreshName(Emails(db))
    IN  [username : {u, -u}, email : {e}, password : {TRUE}, referralCode : CodeInputs(db)]
        \cup [username : {0} \cup Usernames(db) \cup {-t : t \in Usernames(db)},
              email : {e}, password : {TRUE}, referralCode : {Null} \cup OwnedCodes(db)]
        \cup [username : {u},
              email : {0} \cup Emails(db) \cup {-t : t \in Emails(db)},
              password : {TRUE}, referralCode : {Null} \cup OwnedCodes(db)]
        \cup [username : {u}, email : {e}, password : {FALSE},
              referralCode : {Null} \cup OwnedCodes(db)]

\* the ids a caller may pass: stored, deleted and never created
IdInputs(db) == 1..db.nextId

\* ------------------------------------------------------------------ actions
\* last: the call that has just returned (or is found not to return) and what
\* it returned; Idle once the caller has taken the result.
Idle == [op |-> "idle"]
\* the callers whose calls may overlap; inflight: the call each has in flight
Callers == {"a", "b"}

SetDB(db) ==
    /\ users' = db.users
    /\ referrals' = db.referrals
    /\ nextId' = db.nextId

Init ==
    /\ users = <<>>
    /\ referrals = <<>>
    /\ nextId = 1
    /\ directCalls = 0
    /\ last = Idle
    /\ inflight = [c \in Callers |-> Idle]
    /\ session = JsNull
    /\ now = 0

Register(in, code, bound) ==
    /\ last = Idle
    /\ nextId <= bound
    /\ LET r == register(DB, in.username, in.email, in.password, in.referralCode, code)
       IN  /\ SetDB(r.db)
           /\ last' = [op |-> "register", args |-> in, returned |-> r.f.pc = "done",
                       result |-> r.f.result, user |-> r.f.user,
                       pnr |-> [called |-> r.f.pnr.newUserId # 0,
                                returned |-> r.f.pnr.pc = "done",
                                result |-> r.f.pnr.result]]
    /\ UNCHANGED <<directCalls, inflight, session, now>>

CreateAdminUser(code) ==
    /\ last = Idle
    /\ nextId <= MaxUsers
    /\ Cardinality({i \in DOMAIN users : users[i].isAdmin}) < MaxAdmins
    /\ LET u == FreshName(Usernames(DB))
           e == FreshName(Emails(DB))
           r == createAdminUser(DB, u, e, code)
       IN  /\ SetDB(r.db)
           /\ last' = [op |-> "createAdminUser", args |-> <<u, e>>, returned |-> TRUE,
                       result |-> r.result, user |-> r.user]
    /\ UNCHANGED <<directCalls, inflight, session, now>>

ProcessNewReferral(newUserId, referralCode) ==
    /\ last = Idle
    /\ directCalls < MaxDirectCalls
    /\ LET r == processNewReferral(DB, newUserId, referralCode)
       IN  /\ SetDB(r.db)
           /\ last' = [op |-> "processNewReferral", args |-> <<newUserId, referralCode>>,
                       returned |-> r.f.pc = "done", result |-> r.f.result]
           /\ directCalls' = IF r.db.referrals # referrals THEN directCalls + 1
                             ELSE directCalls
    /\ UNCHANGED <<inflight, session, now>>

DeleteUser(id) ==
    /\ last = Idle
    /\ (nextId - 1) - Cardinality(DOMAIN users) < MaxDeletes
    /\ SetDB(deleteUser(DB, id))
    /\ last' = [op |-> "deleteUser", args |-> <<id>>, returned |-> TRUE]
    /\ UNCHANGED <<directCalls, inflight, session, now>>

QueryNames ==
    {"getDirectReferrals", "buildReferralTree", "getReferralStats", "getUpline",
     "getEarningsBreakdown", "getNetworkSize"}

QueryResult(db, op, userId) ==
    CASE op = "getDirectReferrals" -> getDirectReferrals(db, userId)
      [] op = "buildReferralTree" -> buildReferralTree(db, userId)
      [] op = "getReferralStats" -> getReferralStats(db, userId)
      [] op = "getUpline" -> getUpline(db, userId)
      [] op = "getEarningsBreakdown" -> getEarningsBreakdown(db, userId)
      [] op = "getNetworkSize" -> getNetworkSize(db, userId)

\* whether the query returns: the tree recursion and the upline loop do not
\* on a cycle
QueryReturns(db, op, userId) ==
    IF op \in {"buildReferralTree", "getReferralStats", "getNetworkSize"}
    THEN buildReferralTree(db, userId) # Diverges
    ELSE IF op = "getUpline" THEN getUpline(db, userId) # <<Diverges>>
    ELSE TRUE

\* (mutant) the query saves the user it fetched, stripped as sanitizeUser
\* strips what it returns (here of its admin flag)
Query_SavesUser(op, userId) ==
    /\ last = Idle
    /\ last' = [op |-> op, args |-> <<userId>>, returned |-> QueryReturns(DB, op, userId),
                result |-> QueryResult(DB, op, userId)]
    /\ users' = [i \in DOMAIN users |->
                    IF i = userId THEN [users[i] EXCEPT !.isAdmin = FALSE] ELSE users[i]]
    /\ UNCHANGED <<referrals, nextId, directCalls, inflight, session, now>>

\* a query reads the store and writes nothing
Query(op, userId) ==
    /\ last = Idle
    /\ last' = [op |-> op, args |-> <<userId>>, returned |-> QueryReturns(DB, op, userId),
                result |-> QueryResult(DB, op, userId)]
    /\ UNCHANGED <<users, referrals, nextId, directCalls, inflight, session, now>>

\* the caller takes the result and is free to make its next call
Resume ==
    /\ last # Idle
    /\ last.returned
    /\ last' = Idle
    /\ UNCHANGED <<users, referrals, nextId, directCalls, inflight, session, now>>

\* Spec: every operation, one call at a time; its direct processNewReferral
\* calls are those with an id or a code that is not in the store
RejectedCalls(db) ==
    {c \in IdInputs(db) \X CodeInputs(db) :
        c[1] \notin DOMAIN db.users \/ c[2] \notin OwnedCodes(db)}

Next ==
    \/ \E in \in RegisterInputs(DB), code \in GeneratedCodes(DB) : Register(in, code, MaxUsers)
    \/ \E code \in GeneratedCodes(DB) : CreateAdminUser(code)
    \/ \E c \in RejectedCalls(DB) : ProcessNewReferral(c[1], c[2])
    \/ \E id \in IdInputs(DB) : DeleteUser(id)
    \/ \E op \in QueryNames, id \in IdInputs(DB) : Query(op, id)
    \/ Resume

Spec == Init /\ [][Next]_vars

\* SpecChain: one referrer chain grown by register, each new user registering
\* with the code of the newest one, and direct processNewReferral calls with
\* any arguments
ChainInputs(db) ==
    [username : {FreshName(Usernames(db))}, email : {FreshName(Emails(db))},
     password : {TRUE},
     referralCode : IF db.users = <<>> THEN {Null}
                    ELSE {db.users[db.nextId - 1].referralCode}]

NextChain ==
    \/ \E in \in ChainInputs(DB) : Register(in, nextId, MaxChain)
    \/ \E id \in IdInputs(DB), code \in CodeInputs(DB) : ProcessNewReferral(id, code)
    \/ Resume

SpecChain == Init /\ [][NextChain]_vars

\* SpecFault: one referrer chain grown by register, and processNewReferral
\* calls in which one store request is rejected
FailingProcessNewReferral(newUserId, referralCode, n) ==
    /\ last = Idle
    /\ directCalls < MaxDirectCalls
    /\ LET r == processNewReferralFailing(DB, newUserId, referralCode, n)
       IN  /\ SetDB(r.db)
           /\ last' = [op |-> "processNewReferral", args |-> <<newUserId, referralCode>>,
                       returned |-> TRUE, result |-> r.f.result,
                       failedAt |-> IF r.failed THEN n ELSE 0,
                       written |-> Len(r.db.referrals) - Len(referrals)]
           /\ directCalls' = IF r.db # DB THEN directCalls + 1 ELSE directCalls
    /\ UNCHANGED <<inflight, session, now>>

\* the requests of a call that walks a chain of FaultChain users
FaultSteps == 1..(1 + 4 * FaultChain)

NextFault ==
    \/ \E in \in ChainInputs(DB) : Register(in, nextId, FaultChain)
    \/ \E id \in IdInputs(DB), code \in CodeInputs(DB), n \in FaultSteps :
            FailingProcessNewReferral(id, code, n)
    \/ Resume

SpecFault == Init /\ [][NextFault]_vars

\* SpecConc: overlapping calls.  A caller with no call in flight makes one (the
\* first of two free callers, which are alike); a call in flight runs its next
\* awaited store request, and is over when that was its last.
Start(c, op, f) ==
    /\ inflight[c] = Idle
    /\ c = "b" => inflight["a"] # Idle
    /\ inflight' = [inflight EXCEPT ![c] = [op |-> op, f |-> f]]
    /\ last' = Idle
    /\ UNCHANGED <<users, referrals, nextId, session, now>>

UsersInFlight ==
    Cardinality({c \in Callers : inflight[c].op \in {"register", "createAdminUser"}
                                    /\ inflight[c].f.id = 0})

\* the names overlapping calls pass: that of a call in flight, in either letter
\* case, or one that nobody stored or in flight has
NamesInFlight ==
    {inflight[c].f.username :
        c \in {d \in Callers : inflight[d].op \in {"register", "createAdminUser"}}}
ConcNames(db) ==
    NamesInFlight \cup {-n : n \in NamesInFlight}
        \cup {FreshName(Usernames(db) \cup Emails(db) \cup NamesInFlight
                            \cup {-n : n \in NamesInFlight})}

CallRegister(c, name, referralCode) ==
    /\ (nextId - 1) + UsersInFlight < ConcUsers
    /\ Start(c, "register", RegFrame(name, name, TRUE, referralCode))
    /\ UNCHANGED directCalls

CallCreateAdminUser(c, name) ==
    /\ (nextId - 1) + UsersInFlight < ConcUsers
    /\ \A i \in DOMAIN users : ~users[i].isAdmin
    /\ \A d \in Callers : inflight[d].op # "createAdminUser"
    /\ Start(c, "createAdminUser", AdminFrame(name, name))
    /\ UNCHANGED directCalls

CallProcessNewReferral(c, newUserId, referralCode) ==
    /\ directCalls < ConcDirect
    /\ Start(c, "processNewReferral", PnrFrame(newUserId, referralCode))
    /\ directCalls' = directCalls + 1

\* the levels and amounts a caller passes to awardEarnings: those of the
\* reward structure, and others
AwardInputs ==
    {<<1, rewardStructure.level1>>, <<2, rewardStructure.level1>>,
     <<5, rewardStructure.level4Plus>>, <<0, -rewardStructure.level2>>}

CallAwardEarnings(c, referrerId, level, amount) ==
    /\ directCalls < ConcDirect
    /\ Start(c, "awardEarnings", AwardFrame(referrerId, nextId, level, amount))
    /\ directCalls' = directCalls + 1

CallDeleteUser(c, id) ==
    /\ directCalls < ConcDirect
    /\ Start(c, "deleteUser", [pc |-> "delete", id |-> id, result |-> Success])
    /\ directCalls' = directCalls + 1

\* the next awaited request of a call in flight
CallStep(db, call, code) ==
    CASE call.op = "register" -> registerStep(db, call.f, code)
      [] call.op = "createAdminUser" -> createAdminUserStep(db, call.f, code)
      [] call.op = "processNewReferral" -> processNewReferralStep(db, call.f)
      [] call.op = "awardEarnings" -> awardEarningsStep(db, call.f)
      [] call.op = "deleteUser" ->
            [db |-> deleteUser(db, call.f.id), f |-> [call.f EXCEPT !.pc = "done"]]

\* the level the walk of a call stands at
WalkLevel(call) ==
    IF call.op = "register" THEN call.f.pnr.level
    ELSE IF call.op = "processNewReferral" THEN call.f.level
    ELSE 0

\* what a call that is over returned (of a register call, also the name it
\* was given and what its processNewReferral call returned)
Returned(call, f) ==
    [op |-> call.op, returned |-> TRUE, result |-> f.result,
     name |-> IF call.op = "register" THEN f.username ELSE 0,
     pnr |-> IF call.op = "register" THEN f.pnr.result ELSE f.result]

\* under SpecConc last is the call that returned in the step just taken
Step(c, code) ==
    /\ inflight[c] # Idle
    /\ WalkLevel(inflight[c]) <= ConcLevels
    /\ LET s == CallStep(DB, inflight[c], code)
       IN  /\ SetDB(s.db)
           /\ inflight' = [inflight EXCEPT ![c] =
                              IF s.f.pc = "done" THEN Idle ELSE [inflight[c] EXCEPT !.f = s.f]]
           /\ last' = IF s.f.pc = "done" THEN Returned(inflight[c], s.f) ELSE Idle
    /\ UNCHANGED <<directCalls, session, now>>

NextConc ==
    \/ \E c \in Callers, name \in ConcNames(DB), code \in {Null} \cup OwnedCodes(DB) :
            CallRegister(c, name, code)
    \/ \E c \in Callers, name \in ConcNames(DB) : CallCreateAdminUser(c, name)
    \/ \E c \in Callers, id \in DOMAIN users, code \in OwnedCodes(DB) :
            CallProcessNewReferral(c, id, code)
    \/ \E c \in Callers, id \in IdInputs(DB), in \in AwardInputs :
            CallAwardEarnings(c, id, in[1], in[2])
    \/ \E c \in Callers, id \in DOMAIN users : CallDeleteUser(c, id)
    \/ \E c \in Callers, code \in GeneratedCodes(DB) : Step(c, code)

SpecConc == Init /\ [][NextConc]_vars


\* SpecSession: registration and deletion of a few users, the session calls,
\* and the clock, which moves half a day at a time
HalfDay == 12 * 60 * 60 * 1000

LoginInputs(db) ==
    ({0, FreshName(Usernames(db))} \cup Usernames(db) \cup {-t : t \in Usernames(db)})
        \X BOOLEAN

Login(username, password) ==
    /\ last = Idle
    /\ LET r == login(DB, session, now, username, password)
       IN  /\ session' = r.item
           /\ last' = [op |-> "login", args |-> <<username, password>>,
                       returned |-> TRUE, result |-> r.result]
    /\ UNCHANGED <<users, referrals, nextId, directCalls, inflight, now>>

Logout ==
    /\ last = Idle
    /\ session' = logout(session)
    /\ last' = [op |-> "logout", returned |-> TRUE]
    /\ UNCHANGED <<users, referrals, nextId, directCalls, inflight, now>>

GetSession ==
    /\ last = Idle
    /\ LET r == getSession(session, now)
       IN  /\ session' = r.item
           /\ last' = [op |-> "getSession", returned |-> TRUE, result |-> r.result]
    /\ UNCHANGED <<users, referrals, nextId, directCalls, inflight, now>>

IsLoggedIn ==
    /\ last = Idle
    /\ LET r == isLoggedIn(session, now)
       IN  /\ session' = r.item
           /\ last' = [op |-> "isLoggedIn", returned |-> TRUE, result |-> r.result]
    /\ UNCHANGED <<users, referrals, nextId, directCalls, inflight, now>>

\* time passes between calls
Tick ==
    /\ last = Idle
    /\ now < MaxHalfDays * HalfDay
    /\ now' = now + HalfDay
    /\ UNCHANGED <<users, referrals, nextId, directCalls, last, inflight, session>>

NextSession ==
    \/ \E in \in RegisterInputs(DB) : Register(in, nextId, SessionUsers)
    \/ \E id \in DOMAIN users : DeleteUser(id)
    \/ \E in \in LoginInputs(DB) : Login(in[1], in[2])
    \/ Logout
    \/ GetSession
    \/ IsLoggedIn
    \/ Tick
    \/ Resume

SpecSession == Init /\ [][NextSession]_vars


\* ------------------------------------------------- what the claims speak of
DBNext == [users |-> users', referrals |-> referrals', nextId |-> nextId']

\* the records a step appended
NewReferrals == SubSeq(referrals', Len(referrals) + 1, Len(referrals'))

\* the stored user a user was referred by (0: none stored)
ReferrerOf(us, i) ==
    IF \E j \in DOMAIN us : us[j].referralCode = us[i].referredBy
    THEN CHOOSE j \in DOMAIN us : us[j].referralCode = us[i].referredBy
    ELSE 0

\* user i and the users above it, nearest first, n of them at most
RECURSIVE ChainFrom(_, _, _)
ChainFrom(us, i, n) ==
    IF i = 0 \/ n = 0 THEN <<>>
    ELSE <<i>> \o ChainFrom(us, ReferrerOf(us, i), n - 1)

\* the owner of a code and the users above it
ChainOfCode(us, code) ==
    IF \E j \in DOMAIN us : us[j].referralCode = code
    THEN ChainFrom(us, CHOOSE j \in DOMAIN us : us[j].referralCode = code, MaxDepth)
    ELSE <<>>

\* the top of a chain was referred by a code that resolves to nobody
BrokenAbove(us, chain) ==
    /\ chain # <<>>
    /\ us[chain[Len(chain)]].referredBy # Null
    /\ ReferrerOf(us, chain[Len(chain)]) = 0

TableAmount(k) == IF k = 1 THEN 100 ELSE IF k = 2 THEN 60 ELSE IF k = 3 THEN 40 ELSE 20

BucketSum(u) ==
    u.earningsByLevel.level1 + u.earningsByLevel.level2
        + u.earningsByLevel.level3 + u.earningsByLevel.level4Plus

\* a step in which processNewReferral(newUserId, code) ran to its return,
\* called directly or by register
PnrReturned(newUserId, code) ==
    \/ /\ last'.op = "processNewReferral"
       /\ last'.returned
       /\ last'.args = <<newUserId, code>>
    \/ /\ last'.op = "register"
       /\ last'.returned
       /\ last'.pnr.called /\ last'.pnr.returned
       /\ last'.user.id = newUserId
       /\ toUpperCase(last'.args.referralCode) = code
PnrResult == IF last'.op = "register" THEN last'.pnr.result ELSE last'.result

PnrCalls == (1..nextId) \X (1..MaxIds)

\* C1: over an intact referrer chain of N users above the code's owner,
\* processNewReferral appends exactly N records, the k-th for the k-th
\* ancestor (nearest first) with level k and amount 100, 60, 40, then 20 for
\* every k >= 4, and raises that ancestor's totalEarnings by that amount.
C1_ChainAwards ==
    [][\A c \in PnrCalls :
        (PnrReturned(c[1], c[2]) /\ c[1] \in DOMAIN users' /\ ChainOfCode(users', c[2]) # <<>>
            /\ ~BrokenAbove(users', ChainOfCode(users', c[2])))
        => LET chain == ChainOfCode(users', c[2])
           IN  /\ PnrResult = Success
               /\ Len(NewReferrals) = Len(chain)
               /\ \A k \in 1..Len(chain) :
                    /\ NewReferrals[k].referrerId = chain[k]
                    /\ NewReferrals[k].referredId = c[1]
                    /\ NewReferrals[k].level = k
                    /\ NewReferrals[k].earnings = TableAmount(k)
                    /\ users'[chain[k]].totalEarnings
                         = users[chain[k]].totalEarnings + TableAmount(k)]_vars

\* a register call has just awarded five ancestors, levels 1 to 5
C1_Witness ==
    /\ last.op = "register" /\ last.returned /\ last.result.success
    /\ \E k \in 1..Len(referrals) :
         /\ referrals[k].referredId = last.user.id
         /\ referrals[k].level = 5
         /\ referrals[k].earnings = 20
    /\ \E k \in 1..Len(referrals) :
         /\ referrals[k].referredId = last.user.id
         /\ referrals[k].level = 4


\* the earnings of the referral records that name a referrer
RECURSIVE RecordSum(_, _)
RecordSum(refs, id) ==
    IF refs = <<>> THEN 0
    ELSE (IF Head(refs).referrerId = id THEN Head(refs).earnings ELSE 0)
            + RecordSum(Tail(refs), id)

\* C2: in every reachable state, overlapping calls included, every stored
\* user's four earningsByLevel buckets add up to its totalEarnings.
C2_BucketsSumToTotal ==
    \A i \in DOMAIN users : BucketSum(users[i]) = users[i].totalEarnings

\* two overlapping awards to one referrer lost an update (its records add up
\* to more than its total), and a user has earnings in two buckets
C2_Witness ==
    /\ \E i \in DOMAIN users :
         /\ users[i].totalEarnings > 0
         /\ RecordSum(referrals, i) > users[i].totalEarnings
    /\ \E i \in DOMAIN users :
         Cardinality({b \in DOMAIN users[i].earningsByLevel :
                         users[i].earningsByLevel[b] # 0}) >= 2

\* the bucket awardEarnings keeps for a level
BucketOf(u, level) ==
    IF level = 1 THEN u.earningsByLevel.level1
    ELSE IF level = 2 THEN u.earningsByLevel.level2
    ELSE IF level = 3 THEN u.earningsByLevel.level3
    ELSE u.earningsByLevel.level4Plus

\* C3: in a processNewReferral call that returns, every stored user gets at
\* most one new record; a user with none is left as it was; a user with one
\* (for the new user, with the award's level and amount) has totalEarnings and
\* the bucket of that level raised by exactly that amount.
C3_AwardEffects ==
    [][\A c \in PnrCalls :
        PnrReturned(c[1], c[2])
        => /\ \A k \in 1..Len(NewReferrals) :
                /\ NewReferrals[k].referrerId \in DOMAIN users
                /\ NewReferrals[k].referredId = c[1]
           /\ \A i \in DOMAIN users :
                LET mine == SelectSeq(NewReferrals, LAMBDA r : r.referrerId = i)
                IN  /\ i \in DOMAIN users'
                    /\ Len(mine) <= 1
                    /\ mine = <<>> => users'[i] = users[i]
                    /\ mine # <<>> =>
                         /\ users'[i].totalEarnings
                              = users[i].totalEarnings + mine[1].earnings
                         /\ BucketOf(users'[i], mine[1].level)
                              = BucketOf(users[i], mine[1].level) + mine[1].earnings
                         /\ BucketSum(users'[i]) = BucketSum(users[i]) + mine[1].earnings
                         /\ mine[1].earnings > 0]_vars

\* A <- B <- C: C has just registered with B's code; B got 100, A got 60 (on
\* top of the 100 it got for B), and C's registration made two records
C3_Witness ==
    /\ last.op = "register" /\ last.returned /\ last.result.success
    /\ last.user.id = 3
    /\ DOMAIN users = {1, 2, 3}
    /\ users[1].referredBy = Null
    /\ users[2].referredBy = users[1].referralCode
    /\ users[3].referredBy = users[2].referralCode
    /\ users[2].totalEarnings = 100 /\ users[2].earningsByLevel.level1 = 100
    /\ users[1].totalEarnings = 160 /\ users[1].earningsByLevel.level2 = 60
    /\ Len(SelectSeq(referrals, LAMBDA r : r.referredId = 3)) = 2

\* C4: register with a referral code that resolves to no stored user, and
\* processNewReferral with such a code, return a failure result and append no
\* referral record.
C4_UnresolvedCodeFails ==
    [][/\ (/\ last'.op = "register"
           /\ last'.args.referralCode # Null
           /\ toUpperCase(last'.args.referralCode) \notin OwnedCodes(DB))
          => (last'.returned /\ ~last'.result.success /\ referrals' = referrals)
       /\ (/\ last'.op = "processNewReferral"
           /\ last'.args[2] \notin OwnedCodes(DB))
          => (last'.returned /\ ~last'.result.success /\ referrals' = referrals)]_vars

\* a register call with valid name, email and password was refused for its
\* code, in a store that holds users and records
C4_Witness ==
    /\ last.op = "register" /\ last.returned
    /\ ~last.result.success
    /\ last.result.error = "Invalid referral code"
    /\ last.args.referralCode \notin OwnedCodes(DB)
    /\ referrals # <<>>

\* C5: processNewReferral with a newUserId that is not in the store returns a
\* failure result with an error message, whatever the code, and leaves the
\* users and the referral records as they were.
C5_MissingNewUserFails ==
    [][(last'.op = "processNewReferral" /\ last'.args[1] \notin DOMAIN users)
       => /\ last'.returned
          /\ ~last'.result.success
          /\ last'.result.error # ""
          /\ users' = users
          /\ referrals' = referrals]_vars

\* such a call was made with the code of a stored user
C5_Witness ==
    /\ last.op = "processNewReferral" /\ last.returned
    /\ last.args[1] \notin DOMAIN users
    /\ last.args[2] \in OwnedCodes(DB)
    /\ ~last.result.success
    /\ last.result.error = "User not found"

\* the users of a sequence of ids
Members(chain) == {chain[k] : k \in 1..Len(chain)}

\* C6: when the new user is stored, the code passed resolves and, some levels up, a user's referredBy
\* resolves to nobody, processNewReferral awards the users up to that one
\* (levels 1, 2, ... nearest first, one record each), changes no other user,
\* and returns success.
C6_BrokenChainTruncates ==
    [][\A c \in PnrCalls :
        (PnrReturned(c[1], c[2]) /\ c[1] \in DOMAIN users'
            /\ BrokenAbove(users', ChainOfCode(users', c[2])))
        => LET chain == ChainOfCode(users', c[2])
           IN  /\ PnrResult = Success
               /\ Len(NewReferrals) = Len(chain)
               /\ \A k \in 1..Len(chain) :
                    /\ NewReferrals[k].referrerId = chain[k]
                    /\ NewReferrals[k].level = k
                    /\ NewReferrals[k].earnings = TableAmount(k)
                    /\ users'[chain[k]].totalEarnings
                         = users[chain[k]].totalEarnings + TableAmount(k)
               /\ \A i \in DOMAIN users \ Members(chain) : users'[i] = users[i]]_vars

\* a user registered below a deleted ancestor while a user that is not on the
\* part of the chain that resolves (the one above the break) is stored
C6_Witness ==
    /\ last.op = "register" /\ last.returned /\ last.result.success
    /\ last.pnr.called /\ last.pnr.returned /\ last.pnr.result = Success
    /\ LET chain == ChainOfCode(users, last.user.referredBy)
       IN  /\ BrokenAbove(users, chain)
           /\ \E g \in DOMAIN users \ (Members(chain) \cup {last.user.id}) :
                /\ users[g].totalEarnings > 0
                /\ \A k \in 1..Len(referrals) :
                     referrals[k].referrerId = g => referrals[k].referredId # last.user.id


\* the number of referral records with a referrer id
RecordsOf(refs, id) == Len(SelectSeq(refs, LAMBDA r : r.referrerId = id))

\* what C7 says a query answers for an id that is not in the store
EmptyAnswer(op, result) ==
    IF op = "getNetworkSize" THEN result = 0
    ELSE IF op \in {"buildReferralTree", "getReferralStats"} THEN result = JsNull
    ELSE result = <<>>

\* C7 (as claimed): every query called with an id that is not in the store
\* returns an empty, null or zero result.
C7_Claimed ==
    (last.op \in QueryNames /\ last.args[1] \notin DOMAIN users)
    => (last.returned /\ EmptyAnswer(last.op, last.result))

\* C7 (amended): called with an id that is not in the store, every query
\* returns; getUpline and getDirectReferrals return [], buildReferralTree and
\* getReferralStats null, getNetworkSize 0, and getEarningsBreakdown one entry
\* for each referral record whose referrerId is that id (the records of a
\* deleted user stay), so [] only if there is none.
C7_MissingUserQueries ==
    (last.op \in QueryNames /\ last.args[1] \notin DOMAIN users)
    => /\ last.returned
       /\ IF last.op = "getEarningsBreakdown"
          THEN /\ Len(last.result) = RecordsOf(referrals, last.args[1])
               /\ \A k \in 1..Len(last.result) : last.result[k].earnings > 0
          ELSE EmptyAnswer(last.op, last.result)

\* getEarningsBreakdown was called with the id of a deleted user that had been
\* awarded
C7_Witness ==
    /\ last.op = "getEarningsBreakdown"
    /\ last.args[1] \notin DOMAIN users
    /\ last.returned
    /\ last.result # <<>>

RECURSIVE AncestorAt(_, _, _)
AncestorAt(us, i, k) ==
    IF k = 0 \/ i = 0 THEN i ELSE AncestorAt(us, ReferrerOf(us, i), k - 1)

\* the depth of a user in a tree buildReferralTree built (-1: not in it)
RECURSIVE DepthIn(_, _)
DepthIn(tree, id) ==
    IF tree.user.id = id THEN 0
    ELSE LET below == {DepthIn(tree.children[k], id) : k \in 1..Len(tree.children)} \ {-1}
         IN  IF below = {} THEN -1
             ELSE 1 + (CHOOSE d \in below : \A e \in below : d <= e)

\* C9: for a stored user u whose walk ends, getUpline(u) is the sequence of the
\* users above u along referredBy, nearest first, and its length is the depth
\* of u in the tree of its topmost ancestor, the one that has no stored
\* referrer (its referredBy is null or resolves to nobody).
C9_UplineIsAncestors ==
    \A u \in DOMAIN users :
        getUpline(DB, u) # <<Diverges>>
        => LET upline == getUpline(DB, u)
           IN  /\ \A k \in 1..Len(upline) :
                    /\ AncestorAt(users, u, k) # 0
                    /\ upline[k] = users[AncestorAt(users, u, k)]
               /\ LET top == AncestorAt(users, u, Len(upline))
                   IN  /\ top # 0
                       /\ ReferrerOf(users, top) = 0
                       /\ buildReferralTree(DB, top) # Diverges
                            => DepthIn(buildReferralTree(DB, top), u) = Len(upline)

\* getUpline has just returned three ancestors, the last a root
C9_Witness ==
    /\ last.op = "getUpline" /\ last.returned
    /\ last.args[1] \in DOMAIN users
    /\ Len(last.result) = 3
    /\ last.result[1].referralCode = users[last.args[1]].referredBy
    /\ last.result[3].referredBy = Null

DuplicateRecords(refs) ==
    \E j, k \in 1..Len(refs) :
        /\ j < k
        /\ refs[j].referrerId = refs[k].referrerId
        /\ refs[j].referredId = refs[k].referredId
        /\ refs[j].level = refs[k].level

\* a step leaves every record written before it as it was
RecordsKept ==
    /\ Len(referrals') >= Len(referrals)
    /\ \A k \in 1..Len(referrals) : referrals'[k] = referrals[k]

\* C11 (as claimed): the store never holds two referral records with the same
\* referrerId, referredId and level, whatever register and processNewReferral
\* calls are made, and a record once written is never changed.
C11_Claimed ==
    [][RecordsKept /\ ~DuplicateRecords(referrals')]_vars

\* the half of C11 the code keeps: records are only ever appended
C11_RecordsImmutable ==
    [][RecordsKept]_vars


\* the award a call in flight is making: the processNewReferral frame of a
\* register or processNewReferral call, the frame of an awardEarnings call
AwardOf(call) == IF call.op = "register" THEN call.f.pnr ELSE call.f
AmountOf(call) ==
    IF call.op = "awardEarnings" THEN call.f.amount ELSE AwardAmount(AwardOf(call).level)

\* caller c's call stands at the named request of awardEarnings
AtAward(c, pc) ==
    \/ /\ inflight[c].op = "register"
       /\ inflight[c].f.pc = "processNewReferral"
       /\ inflight[c].f.pnr.pc = pc
    \/ /\ inflight[c].op = "processNewReferral"
       /\ inflight[c].f.pc = pc
    \/ /\ inflight[c].op = "awardEarnings"
       /\ inflight[c].f.pc = (IF pc = "awardGet" THEN "get"
                               ELSE IF pc = "awardPut" THEN "put" ELSE "add")

\* the step is caller c's
StepOf(c) == inflight'[c] # inflight[c]

\* C12: the updateUser of an award writes the referrer object the call fetched
\* and updated, whatever was stored since: when another award to the same
\* referrer was stored between the call's getUserById and its updateUser, the
\* referrer's totalEarnings after the write is less than the stored total plus
\* the amount, so that award is lost (both referral records are appended).
C12_StaleWriteLosesAward ==
    [][\A c \in Callers :
        (AtAward(c, "awardPut") /\ StepOf(c)
            /\ UniqueIndexesAllow(DB, AwardOf(inflight[c]).referrer))
        => LET w == AwardOf(inflight[c]).referrer
               amount == AmountOf(inflight[c])
           IN  /\ w.id \in DOMAIN users'
               /\ users'[w.id] = w
               /\ \A i \in DOMAIN users \ {w.id} : users'[i] = users[i]
               /\ (w.id \in DOMAIN users /\ amount > 0
                        /\ users[w.id].totalEarnings > w.totalEarnings - amount)
                    => users'[w.id].totalEarnings < users[w.id].totalEarnings + amount]_vars

\* two users registered with one referrer's code, both calls are over, both
\* level-1 records exist, and the referrer's totalEarnings is one award's
C12_Witness ==
    /\ \A c \in Callers : inflight[c] = Idle
    /\ Len(referrals) = 2
    /\ \E i \in DOMAIN users :
         /\ referrals[1].referrerId = i /\ referrals[2].referrerId = i
         /\ referrals[1].level = 1 /\ referrals[2].level = 1
         /\ referrals[1].referredId # referrals[2].referredId
         /\ \A k \in 1..2 :
              /\ referrals[k].referredId \in DOMAIN users
              /\ users[referrals[k].referredId].referredBy = users[i].referralCode
         /\ users[i].totalEarnings = rewardStructure.level1
         /\ RecordSum(referrals, i) = 2 * rewardStructure.level1


\* every referredBy is the referral code of a stored user
ReferrersExist(us) ==
    \A i \in DOMAIN us :
        us[i].referredBy # Null => \E j \in DOMAIN us : us[j].referralCode = us[i].referredBy

\* no user is above itself along referredBy
Acyclic(us) ==
    \A i \in DOMAIN us :
        \A k \in 1..Cardinality(DOMAIN us) : AncestorAt(us, i, k) # i

\* C13 (as claimed): in every reachable state each user's referredBy, if
\* present, is the referral code of a stored user, and the graph of referredBy
\* has no cycle.
C13_Claimed ==
    ReferrersExist(users) /\ Acyclic(users)


\* C14: on every reachable store whose referredBy graph has no cycle, every
\* processNewReferral call, whatever its arguments, returns (within MaxSteps
\* store requests), and so do getUpline and buildReferralTree for every id;
\* a call that has just been made on such a store has returned.
C14_WalksTerminate ==
    Acyclic(users) =>
        /\ \A id \in IdInputs(DB) :
             /\ getUpline(DB, id) # <<Diverges>>
             /\ buildReferralTree(DB, id) # Diverges
             /\ \A code \in CodeInputs(DB) :
                  processNewReferral(DB, id, code).f.pc = "done"
        /\ last # Idle => last.returned

\* on an acyclic store a registration has just walked three levels up and
\* returned
C14_Witness ==
    /\ Acyclic(users)
    /\ last.op = "register" /\ last.returned
    /\ last.pnr.called /\ last.pnr.returned
    /\ \E k \in 1..Len(referrals) :
         referrals[k].referredId = last.user.id /\ referrals[k].level = 3


\* the awards complete (earnings put and record appended) before the n-th
\* request of a processNewReferral call: one request fetches the new user,
\* four make an award (lookup, get, put, add)
AwardsBefore(n) == IF n < 2 THEN 0 ELSE (n - 2) \div 4
\* the n-th request is the add of an award: its put is done
PutBefore(n) == n >= 2 /\ (n - 2) % 4 = 3

\* C15: a processNewReferral call whose n-th store request is rejected returns
\* a failure result and rolls nothing back: the awards made before it stay
\* (record k for the k-th ancestor at level k, that ancestor's totalEarnings
\* raised by the level's amount), and when the rejected request is the append
\* of an award, the earnings of that award stay without a record.
C15_NoRollback ==
    [][(last'.op = "processNewReferral" /\ last = Idle /\ last'.failedAt > 0)
        => LET n == last'.failedAt
               m == AwardsBefore(n)
               chain == ChainOfCode(users, last'.args[2])
               Raise(k) == IF k <= m \/ (k = m + 1 /\ PutBefore(n)) THEN TableAmount(k) ELSE 0
           IN  /\ ~last'.result.success
               /\ RecordsKept
               /\ Len(NewReferrals) = m
               /\ m <= Len(chain)
               /\ \A k \in 1..m :
                    /\ NewReferrals[k].referrerId = chain[k]
                    /\ NewReferrals[k].level = k
                    /\ NewReferrals[k].earnings = TableAmount(k)
               /\ DOMAIN users' = DOMAIN users
               /\ \A k \in 1..Len(chain) :
                    users'[chain[k]].totalEarnings = users[chain[k]].totalEarnings + Raise(k)
               /\ \A i \in DOMAIN users \ Members(chain) : users'[i] = users[i]]_vars

\* a call failed at the append of its level-3 award: two records of it are
\* stored and a user has earnings that no record accounts for
C15_Witness ==
    /\ last.op = "processNewReferral"
    /\ last.failedAt > 0 /\ ~last.result.success
    /\ last.written = 2
    /\ \E i \in DOMAIN users : users[i].totalEarnings > RecordSum(referrals, i)


\* the id awardEarnings was called with
AwardReferrerId(call) ==
    IF call.op = "awardEarnings" THEN call.f.referrerId ELSE AwardOf(call).cur.id

\* C16: when the getUserById of awardEarnings finds no user under the referrer
\* id, no user changes and no record is appended; called on its own it returns
\* without error; inside processNewReferral the walk goes on: to the lookup of
\* the next level when the vanished referrer had a referredBy, to a successful
\* return when it had none.
C16_VanishedReferrerSkipped ==
    [][\A c \in Callers :
        (AtAward(c, "awardGet") /\ StepOf(c)
            /\ AwardReferrerId(inflight[c]) \notin DOMAIN users)
        => /\ users' = users
           /\ referrals' = referrals
           /\ IF inflight[c].op = "awardEarnings"
              THEN inflight'[c] = Idle /\ last'.result = Success
              ELSE IF AwardOf(inflight[c]).cur.referredBy # Null
              THEN /\ inflight'[c] # Idle
                   /\ AwardOf(inflight'[c]).pc = "lookup"
                   /\ AwardOf(inflight'[c]).level = AwardOf(inflight[c]).level + 1
                   /\ AwardOf(inflight'[c]).cur = AwardOf(inflight[c]).cur
              ELSE inflight'[c] = Idle /\ last'.pnr = Success]_vars

\* a registration has returned, its processNewReferral call with success: the
\* new user's referrer vanished before its award (no level-1 record) and the
\* user above it was awarded level 2
C16_Witness ==
    /\ last.op = "register" /\ last.result.success /\ last.pnr.success
    /\ \E x \in DOMAIN users :
         /\ users[x].referredBy # Null
         /\ ReferrerOf(users, x) = 0
         /\ \E k \in 1..Len(referrals) :
              /\ referrals[k].referredId = x
              /\ referrals[k].level = 2
              /\ referrals[k].referrerId \in DOMAIN users
              /\ users[referrals[k].referrerId].earningsByLevel.level2 = rewardStructure.level2
         /\ \A k \in 1..Len(referrals) :
              referrals[k].referredId = x => referrals[k].level # 1


\* the stored users d levels below user u along referredBy
UsersBelowAt(us, u, d) == {i \in DOMAIN us : AncestorAt(us, i, d) = u}

\* the entry of a per-depth count map (no entry: no user at that depth)
LevelCount(levels, d) == IF d \in DOMAIN levels THEN levels[d] ELSE 0

RECURSIVE SumLevels(_, _)
SumLevels(levels, d) ==
    IF d = 0 THEN 0 ELSE LevelCount(levels, d) + SumLevels(levels, d - 1)

\* C17: for every stored user u whose tree is finite, getReferralStats(u) has
\* directReferrals = the number of users whose referredBy is u's code,
\* totalReferrals = the number of users at every depth >= 1 below u, and
\* levels[d] = the number of users at depth d (no entry where there is none,
\* none for depth 0); totalReferrals is the sum of the levels and
\* directReferrals is levels[1].
C17_StatsCountDepths ==
    \A u \in DOMAIN users :
        LET stats == getReferralStats(DB, u)
        IN  stats # Diverges =>
              /\ stats.directReferrals
                   = Cardinality({i \in DOMAIN users :
                                    users[i].referredBy = users[u].referralCode})
              /\ stats.totalReferrals
                   = Cardinality(UNION {UsersBelowAt(users, u, d) : d \in 1..MaxDepth})
              /\ DOMAIN stats.levels \subseteq 1..MaxDepth
              /\ \A d \in 1..MaxDepth :
                   /\ LevelCount(stats.levels, d) = Cardinality(UsersBelowAt(users, u, d))
                   /\ d \in DOMAIN stats.levels => stats.levels[d] > 0
              /\ stats.totalReferrals = SumLevels(stats.levels, MaxDepth)
              /\ stats.directReferrals = LevelCount(stats.levels, 1)

\* getReferralStats has returned two direct referrals and one at depth 2
C17_Witness ==
    /\ last.op = "getReferralStats" /\ last.returned
    /\ last.args[1] \in DOMAIN users
    /\ last.result.directReferrals = 2
    /\ last.result.totalReferrals = 3
    /\ last.result.levels = <<2, 1>>


\* user i is above itself along referredBy
OnCycle(us, i) == \E k \in 1..Cardinality(DOMAIN us) : AncestorAt(us, i, k) = i

\* the upward walk from user i never ends: it leads into a cycle
WalksIntoCycle(us, i) == AncestorAt(us, i, Cardinality(DOMAIN us)) # 0

\* the records a processNewReferral run appended to the store it started from
RunRecords(db, run) == SubSeq(run.db.referrals, Len(db.referrals) + 1, Len(run.db.referrals))

\* C18: nothing detects a cycle.  In every reachable store with a referredBy
\* cycle, buildReferralTree does not return for a user of the cycle, getUpline
\* does not return for a user whose walk leads into the cycle, and
\* processNewReferral with the code of such a user has not returned after
\* MaxSteps store requests nor after 8 more: it has then awarded more levels
\* than there are users, record k with level k, and 20 at every level from 4.
C18_CycleNeverReturns ==
    /\ \A u \in DOMAIN users :
         /\ OnCycle(users, u) => buildReferralTree(DB, u) = Diverges
         /\ (users[u].referredBy # Null /\ WalksIntoCycle(users, u))
                => getUpline(DB, u) = <<Diverges>>
    /\ \A id \in DOMAIN users, o \in DOMAIN users :
         WalksIntoCycle(users, o) =>
            LET frame == PnrFrame(id, users[o].referralCode)
                run == processNewReferralRun(DB, frame, MaxSteps)
                more == processNewReferralRun(DB, frame, MaxSteps + 8)
                recs == RunRecords(DB, run)
            IN  /\ run.f.pc # "done" /\ more.f.pc # "done"
                /\ Len(recs) > Cardinality(DOMAIN users)
                /\ Len(RunRecords(DB, more)) = Len(recs) + 2
                /\ \A k \in 1..Len(recs) :
                     /\ recs[k].level = k
                     /\ recs[k].referredId = id
                     /\ recs[k].earnings = TableAmount(k)
                     /\ k >= 4 => recs[k].earnings = rewardStructure.level4Plus
    /\ (last.op = "register" /\ last.user.id \in DOMAIN users
            /\ WalksIntoCycle(users, last.user.id)) => ~last.returned

\* a registration drew the code of a deleted user that its own referrer was
\* referred by: the new user is on a cycle, the call has not returned and has
\* awarded 20 at level 5
C18_Witness ==
    /\ last.op = "register" /\ ~last.returned
    /\ last.user.id \in DOMAIN users
    /\ OnCycle(users, last.user.id)
    /\ \E k \in 1..Len(referrals) :
         /\ referrals[k].referredId = last.user.id
         /\ referrals[k].level = 5
         /\ referrals[k].earnings = rewardStructure.level4Plus


\* a step in which processNewReferral was called, directly or by register
PnrCalled == last = Idle /\ (last'.op = "processNewReferral"
                              \/ (last'.op = "register" /\ last'.pnr.called))
PnrNewUserId == IF last'.op = "register" THEN last'.user.id ELSE last'.args[1]
PnrCode ==
    IF last'.op = "register" THEN toUpperCase(last'.args.referralCode) ELSE last'.args[2]

\* user i is as it was before the step but for its earnings fields
OnlyEarningsChanged(i) ==
    users'[i] = [users[i] EXCEPT !.totalEarnings = users'[i].totalEarnings,
                                 !.earningsByLevel = users'[i].earningsByLevel]

\* the part of C19 about the other users: a processNewReferral call changes
\* only users on the referrer chain of the code, and of those only the
\* earnings fields
C19_OnlyChainEarnings ==
    [][PnrCalled
        => LET chain == ChainOfCode(users', PnrCode)
           IN  /\ DOMAIN users' = DOMAIN users \cup {PnrNewUserId}
                    \/ DOMAIN users' = DOMAIN users
               /\ \A i \in DOMAIN users :
                    /\ i \notin Members(chain) => users'[i] = users[i]
                    /\ OnlyEarningsChanged(i)]_vars

\* C19 (as claimed): a processNewReferral(newUserId, code) call changes the
\* earnings fields of users on the referrer chain of the code and nothing
\* else: the new user's own record and every user off the chain are as before.
C19_Claimed ==
    [][PnrCalled
        => LET chain == ChainOfCode(users', PnrCode)
           IN  /\ \A i \in DOMAIN users :
                    /\ i \notin Members(chain) => users'[i] = users[i]
                    /\ OnlyEarningsChanged(i)
               /\ PnrNewUserId \in DOMAIN users
                    => users'[PnrNewUserId] = users[PnrNewUserId]
               /\ (last'.op = "register" /\ PnrNewUserId \in DOMAIN users')
                    => users'[PnrNewUserId] = last'.user]_vars


\* no user was ever deleted: every id made is stored
NoDeletion == DOMAIN users = 1..(nextId - 1)

\* the bucket a record's level is counted in: 1, 2, 3, and 4 for level4Plus
BucketIndex(level) == IF level >= 4 THEN 4 ELSE level

\* the earnings of a referrer's records whose level falls in bucket b
RECURSIVE BucketRecordSum(_, _, _)
BucketRecordSum(refs, id, b) ==
    IF refs = <<>> THEN 0
    ELSE (IF Head(refs).referrerId = id /\ BucketIndex(Head(refs).level) = b
          THEN Head(refs).earnings ELSE 0)
            + BucketRecordSum(Tail(refs), id, b)

\* C20: in every state reached by calls that run one at a time with no
\* deletion, every user's totalEarnings is the sum of the earnings of the
\* records that name it as referrer, and each bucket is the sum over its
\* records of that level (levels 4 and above in level4Plus).
C20_LedgerConsistent ==
    NoDeletion =>
        \A i \in DOMAIN users :
            /\ users[i].totalEarnings = RecordSum(referrals, i)
            /\ users[i].earningsByLevel.level1 = BucketRecordSum(referrals, i, 1)
            /\ users[i].earningsByLevel.level2 = BucketRecordSum(referrals, i, 2)
            /\ users[i].earningsByLevel.level3 = BucketRecordSum(referrals, i, 3)
            /\ users[i].earningsByLevel.level4Plus = BucketRecordSum(referrals, i, 4)

\* with no deletion, a user has been awarded at levels 1, 2 and 3
C20_Witness ==
    /\ NoDeletion
    /\ \E i \in DOMAIN users :
         /\ users[i].earningsByLevel.level1 > 0
         /\ users[i].earningsByLevel.level2 > 0
         /\ users[i].earningsByLevel.level3 > 0
         /\ users[i].totalEarnings = RecordSum(referrals, i)



\* ------------------------------------------------------------------- C21
\* whether storing user would give two stored users one username, one email
\* or one referral code
Duplicates(us, user) ==
    \E i \in DOMAIN us \ {user.id} :
        \/ us[i].username = user.username
        \/ us[i].email = user.email
        \/ us[i].referralCode = user.referralCode

\* no two users of us share a username or an email, letter case aside, or a
\* referral code
UniqueUsers(us) ==
    \A i, j \in DOMAIN us :
        i # j => /\ toLowerCase(us[i].username) # toLowerCase(us[j].username)
                 /\ toLowerCase(us[i].email) # toLowerCase(us[j].email)
                 /\ us[i].referralCode # us[j].referralCode

\* C21: whatever calls overlap and whatever the letter case of the names they
\* pass, no two stored users ever share a username, an email or a referral
\* code; a register call whose insert would make such a duplicate returns
\* failure at that request and stores nothing, and one whose insert would not
\* stores its user.
C21_UniqueUsers ==
    [][/\ UniqueUsers(users')
       /\ \A c \in Callers :
            (/\ inflight[c].op = "register"
             /\ inflight[c].f.pc = "addUser"
             /\ inflight'[c] # inflight[c])
            => IF Duplicates(users, inflight[c].f.user)
               THEN /\ last'.op = "register"
                    /\ ~last'.result.success
                    /\ users' = users
               ELSE /\ inflight[c].f.user.id \in DOMAIN users'
                    /\ users'[inflight[c].f.user.id] = inflight[c].f.user]_vars

\* a register call given a name in the other letter case than that of an
\* overlapping register call, which has stored its user and is still walking
\* the chain, has just been rejected by the store and returned failure
C21_Witness ==
    /\ last.op = "register"
    /\ last.result = Failure("ConstraintError")
    /\ last.name < 0
    /\ \E c \in Callers :
        /\ inflight[c].op = "register"
        /\ inflight[c].f.pc = "processNewReferral"
        /\ inflight[c].f.username = -last.name
        /\ inflight[c].f.user.id \in DOMAIN users
        /\ users[inflight[c].f.user.id].username = toLowerCase(last.name)


\* ------------------------------------------------------------------- C22
\* the records the call just made appended to the referrals
AppendedRecords ==
    {referrals'[k] : k \in (Len(referrals) + 1)..Len(referrals')}

\* C22: a register call that returns failure, whatever the reason, leaves the
\* users (so their earnings) and the referral records as they were; a register
\* call that returns success has stored its user, and when it was given a
\* referral code it has appended a level-1 record of the level-1 amount that
\* credits the owner of the code for the new user.
C22_RegisterAllOrNothing ==
    [][(last = Idle /\ last'.op = "register" /\ last'.returned)
       => IF ~last'.result.success
          THEN /\ users' = users
               /\ referrals' = referrals
          ELSE /\ last'.user.id \notin DOMAIN users
               /\ last'.user.id \in DOMAIN users'
               /\ last'.args.referralCode # Null
                  => \E r \in AppendedRecords :
                        /\ r.referredId = last'.user.id
                        /\ r.level = 1
                        /\ r.earnings = rewardStructure.level1
                        /\ r.referrerId \in DOMAIN users
                        /\ users[r.referrerId].referralCode
                              = toUpperCase(last'.args.referralCode)]_vars

\* a register call given a stored user's referral code and a stored username
\* in the other letter case has passed every check, has had its insert
\* rejected by the store and has returned failure, in a store whose users have
\* earnings
C22_Witness ==
    /\ last.op = "register"
    /\ last.returned
    /\ last.result = Failure("ConstraintError")
    /\ last.args.referralCode \in OwnedCodes(DB)
    /\ -last.args.username \in Usernames(DB)
    /\ referrals # <<>>
    /\ \E i \in DOMAIN users : users[i].totalEarnings > 0


\* ------------------------------------------------------------------- C23
\* the age of the stored session
SessionAge == now - session.timestamp

\* C23: isLoggedIn returns true only with a stored session that is at most 24
\* hours old, which it leaves as it is; a session is stored or altered only by
\* a login call that succeeds, for a stored user whose username is the one
\* given in lower case and whose password hash is that of the password given,
\* and is stamped with the time of that login; logout removes the session; a
\* login call that fails leaves the session as it was; getSession on a session
\* more than 24 hours old returns null and removes it.
C23_SessionLifecycle ==
    [][/\ (last = Idle /\ last'.op = "isLoggedIn" /\ last'.result)
            => /\ session # JsNull
               /\ SessionAge <= expiryTime
               /\ session' = session
       /\ (session' # session /\ session' # JsNull)
            => /\ last = Idle
               /\ last'.op = "login"
               /\ last'.result.success
               /\ session'.timestamp = now
               /\ session'.userId \in DOMAIN users
               /\ users[session'.userId].username = toLowerCase(last'.args[1])
               /\ users[session'.userId].passwordHash = hashPassword(last'.args[2])
       /\ (last = Idle /\ last'.op = "logout") => session' = JsNull
       /\ (last = Idle /\ last'.op = "login" /\ ~last'.result.success)
            => session' = session
       /\ (last = Idle /\ last'.op = "getSession" /\ session # JsNull
             /\ SessionAge > expiryTime)
            => /\ last'.result = JsNull
               /\ session' = JsNull]_vars

\* isLoggedIn has returned true exactly 24 hours after the login that stored
\* the session, a login made after the clock had moved, for a user who is
\* still stored
C23_Witness ==
    /\ last.op = "isLoggedIn"
    /\ last.result
    /\ session # JsNull
    /\ SessionAge = expiryTime
    /\ session.timestamp > 0
    /\ session.userId \in DOMAIN users

=============================================================================
